---- MODULE Spec2Model ----
(***************************************************************************)
(* Model of the household-finance tracker of src/main.py: the expense      *)
(* table gastos, the income table renda, and the six route handlers        *)
(* (home, adicionar_renda, deletar_renda, adicionar, deletar,              *)
(* deletar_serie).                                                         *)
(*                                                                         *)
(* Encodings.  A date string 'YYYY-MM-DD' is the integer YYYYMMDD, a       *)
(* parsed date is the tuple <<year, month, day>>.  An Optional[int]        *)
(* argument is <<>> (None) or <<n>>.  Amounts are integers (currency       *)
(* units that floats represent exactly).  uuid4 strings are the integers   *)
(* 1, 2, ... in order of generation; the SQL NULL of agrupamento_id is 0.  *)
(***************************************************************************)
EXTENDS Integers, Sequences, FiniteSets, TLC

\* ------------------------------------------------------------------ bounds
\* ids the gastos table may issue (AUTOINCREMENT), ids of renda, uuids
\* generated, and the largest installment count submitted.
MaxRows == 2
MaxRendas == 1
MaxUuids == 2
MaxParcelas == 2

\* datetime.MINYEAR and datetime.MAXYEAR of the imported datetime module.
MINYEAR == 1
MAXYEAR == 9999

NULL == 0

None == <<>>
Some(n) == <<n>>

\* Python truthiness of an Optional[int]: None and 0 are false.
Truthy(x) == x # None /\ x[1] # 0

Min(a, b) == IF a <= b THEN a ELSE b

\* -------------------------------------------------------------- dates

IsLeap(y) == (y % 4 = 0 /\ y % 100 # 0) \/ y % 400 = 0

\* calendar.monthrange(y, m)[1]
DaysInMonth(y, m) ==
    IF m = 2 THEN (IF IsLeap(y) THEN 29 ELSE 28)
    ELSE IF m \in {4, 6, 9, 11} THEN 30 ELSE 31

\* datetime(y, m, d) / date(y, m, d) accepts these fields.
ValidDate(y, m, d) ==
    /\ y >= MINYEAR /\ y <= MAXYEAR
    /\ m >= 1 /\ m <= 12
    /\ d >= 1 /\ d <= DaysInMonth(y, m)

\* datetime.strptime(data, '%Y-%m-%d').date(): the parsed date, or <<>> when
\* strptime raises ValueError.
strptime(s) ==
    LET y == s \div 10000
        m == (s \div 100) % 100
        d == s % 100
    IN  IF s > 0 /\ ValidDate(y, m, d) THEN <<y, m, d>> ELSE <<>>

\* date.strftime('%Y-%m-%d') of a date with a four-digit year.
strftime(dt) == dt[1] * 10000 + dt[2] * 100 + dt[3]

\* SQLite strftime('%Y-%m', data): the 'YYYY-MM' key of a stored date string.
sql_month_key(s) == <<s \div 10000, (s \div 100) % 100>>

\* f"{current_ano}-{current_mes:02d}"
target_month_str(ano, mes) == <<ano, mes>>

\* Variant: month arithmetic that wraps the month without carrying the year.
relativedelta_add_norollover(dt, months) ==
    LET m == dt[2] + months
    IN  IF m < 1 \/ m > 12 THEN <<dt[1], ((m - 1) % 12) + 1, dt[3]>>
        ELSE <<dt[1], m, Min(dt[3], DaysInMonth(dt[1], m))>>

\* dt + relativedelta(months=k), k possibly negative: the month moves by k
\* with year carry, the day is clamped to the target month's length, and a
\* year outside MINYEAR..MAXYEAR raises (<<>>).
relativedelta_add(dt, months) ==
    LET t == dt[2] - 1 + months
        y == dt[1] + (t \div 12)
        m == (t % 12) + 1
    IN  IF y < MINYEAR \/ y > MAXYEAR THEN <<>>
        ELSE <<y, m, Min(dt[3], DaysInMonth(y, m))>>

\* ------------------------------------------------------------ SQL helpers

\* column = ? in a WHERE clause: never true of NULL.
sql_eq(a, b) == a # NULL /\ b # NULL /\ a = b

RECURSIVE sum_valor(_)
\* sum(r['valor'] for r in rows) / SUM(valor) over a set of rows.
sum_valor(rows) ==
    IF rows = {} THEN 0
    ELSE LET r == CHOOSE x \in rows : TRUE
         IN  r.valor + sum_valor(rows \ {r})

RECURSIVE sum_data(_, _)
\* sum(data) over the totals of the GROUP BY rows.
sum_data(f, cats) ==
    IF cats = {} THEN 0
    ELSE LET c == CHOOSE x \in cats : TRUE
         IN  f[c] + sum_data(f, cats \ {c})

\* Variant: a filter that compares the year alone.
in_month_year_only(r, key) == sql_month_key(r.data)[1] = key[1]

\* WHERE strftime('%Y-%m', data) = ?
in_month(r, key) == sql_month_key(r.data) = key

select_gastos(rows, key) == {r \in rows : in_month(r, key)}

RECURSIVE order_desc(_)
\* ORDER BY data DESC, id DESC
order_desc(rows) ==
    IF rows = {} THEN <<>>
    ELSE LET top == CHOOSE x \in rows : \A y \in rows :
                        \/ x.data > y.data
                        \/ (x.data = y.data /\ x.id >= y.id)
         IN  <<top>> \o order_desc(rows \ {top})

\* SELECT categoria, SUM(valor) ... WHERE month GROUP BY categoria
categorias_db(rows, key) ==
    LET sel == select_gastos(rows, key)
    IN  [c \in {r.categoria : r \in sel} |->
            sum_valor({r \in sel : r.categoria = c})]

\* Variant: a balance clamped at zero.
saldo_clamped(renda_mensal, total_geral) ==
    IF renda_mensal - total_geral < 0 THEN 0 ELSE renda_mensal - total_geral

\* saldo_estimado = renda_mensal - total_geral
saldo_estimado(renda_mensal, total_geral) == renda_mensal - total_geral

\* Variant: an UPDATE that zeroes the row's amount instead of deleting it.
delete_by_id_zeroes(rows, id) ==
    {IF r.id = id THEN [r EXCEPT !.valor = 0] ELSE r : r \in rows}

\* DELETE FROM gastos WHERE id = ?  (also DELETE FROM renda WHERE id = ?)
delete_by_id(rows, id) == {r \in rows : r.id # id}

\* Variant: a DELETE whose WHERE clause is missing.
delete_serie_all(rows, g) == {r \in rows : FALSE}

\* DELETE FROM gastos WHERE agrupamento_id = ?
delete_serie(rows, g) == {r \in rows : ~sql_eq(r.agrupamento_id, g)}

\* Variant: the amount divided by the installment count.
insert_gasto_divided(id, form, date_str, i, g) ==
    [id |-> id, descricao |-> form.descricao,
     valor |-> form.valor \div form.parcelas,
     categoria |-> form.categoria, data |-> date_str,
     parcela_atual |-> i + 1, total_parcelas |-> form.parcelas,
     agrupamento_id |-> g]

\* Variant: the loop index stored as the installment index.
insert_gasto_zero_based(id, form, date_str, i, g) ==
    [id |-> id, descricao |-> form.descricao, valor |-> form.valor,
     categoria |-> form.categoria, data |-> date_str,
     parcela_atual |-> i, total_parcelas |-> form.parcelas,
     agrupamento_id |-> g]

\* The row of INSERT INTO gastos (...) VALUES (descricao, valor, categoria,
\* date_str, i + 1, parcelas, agrupamento_id), with its AUTOINCREMENT id.
insert_gasto(id, form, date_str, i, g) ==
    [id |-> id, descricao |-> form.descricao, valor |-> form.valor,
     categoria |-> form.categoria, data |-> date_str,
     parcela_atual |-> i + 1, total_parcelas |-> form.parcelas,
     agrupamento_id |-> g]

\* INSERT INTO renda (descricao, valor) VALUES (?, ?)
insert_renda(rows, id, descricao, valor) ==
    rows \cup {[id |-> id, descricao |-> descricao, valor |-> valor]}

\* Variant: a connection in autocommit mode, where a failure keeps the rows
\* inserted so far.
rollback_keeps_pending(committed, pending) == committed \cup pending

\* `with conn:` leaving by an exception: the transaction is rolled back and
\* the table is what was committed before.
rollback(committed, pending) == committed

\* `with conn:` leaving normally: the pending rows are committed together.
commit(committed, pending) == committed \cup pending

\* url = "/" or f"/?mes={current_mes}&ano={current_ano}"
redirect_url(current_mes, current_ano) ==
    IF Truthy(current_mes) /\ Truthy(current_ano)
    THEN <<"/", current_mes[1], current_ano[1]>>
    ELSE <<"/">>

\* meses[current_mes]
meses ==
    <<"Janeiro", "Fevereiro", "Marco", "Abril", "Maio", "Junho", "Julho",
      "Agosto", "Setembro", "Outubro", "Novembro", "Dezembro">>

\* ------------------------------------------------------------- inputs

\* datetime.now() at the time of a request.
Todays == {<<2024, 12, 20>>}

\* Form fields descricao, valor, categoria, data of POST /adicionar.
Despesas ==
    { [descricao |-> "Aluguel", valor |-> 1000, categoria |-> "Moradia", data |-> 20250131],
      [descricao |-> "Cinema",  valor |-> 250,  categoria |-> "Lazer",   data |-> 20241231],
      [descricao |-> "Estorno", valor |-> -5,   categoria |-> "Lazer",   data |-> 99991215],
      [descricao |-> "Erro",    valor |-> 250,  categoria |-> "Lazer",   data |-> 20250230] }

Parcelas == (-1) .. MaxParcelas

\* Form fields current_mes, current_ano of the POST handlers.
Contextos == { <<None, None>>, <<Some(12), Some(2024)>> }

\* Query parameters mes, ano of GET /: the windows the submitted expenses
\* fall in (no parameters: today's month).
Janelas ==
    { <<None, None>>, <<Some(1), Some(2025)>>, <<Some(2), Some(2025)>>,
      <<Some(3), Some(2025)>> }

\* Query parameters of GET / for the window arithmetic alone: months and
\* years inside, at the edges of and outside their ranges.
JanelaMeses == {None} \cup {Some(m) : m \in (-1) .. 14}
JanelaAnos == {None} \cup {Some(y) : y \in {0, 1, 2, 2024, 2025, 9998, 9999, 10000}}

\* Form fields valor, descricao of POST /adicionar_renda.
Rendas == { [descricao |-> "Renda Extra", valor |-> 500] }

\* A row left by an installation older than the installment columns: the
\* ALTER TABLE defaults give it parcela 1 of 1 and a NULL agrupamento_id.
LegacyRow ==
    [id |-> 1, descricao |-> "Antigo", valor |-> 250, categoria |-> "Moradia",
     data |-> 20241215, parcela_atual |-> 1, total_parcelas |-> 1,
     agrupamento_id |-> NULL]

\* ------------------------------------------------------------- state

VARIABLES
    gastos,      \* committed rows of table gastos
    renda,       \* committed rows of table renda
    seq_gastos,  \* sqlite_sequence of gastos (last AUTOINCREMENT id issued)
    seq_renda,   \* sqlite_sequence of renda
    uuid_seq,    \* number of uuid4 values generated so far
    tx,          \* the open transaction of an adicionar request, or idle
    last         \* the latest request step: op, args, status (0: no response
                 \* yet), body, and the exception logger.error reported ("": none)

vars == <<gastos, renda, seq_gastos, seq_renda, uuid_seq, tx, last>>

Idle == [state |-> "idle"]

\* init_db(): the tables exist; an existing database file keeps its rows.
Init ==
    /\ gastos \in {{}, {LegacyRow}}
    /\ seq_gastos = Cardinality(gastos)
    /\ renda = {}
    /\ seq_renda = 0
    /\ uuid_seq = 0
    /\ tx = Idle
    /\ last = [op |-> "init_db", args |-> <<>>, status |-> 0, body |-> <<>>, log |-> ""]

\* RedirectResponse(url=url, status_code=303)
Redirect(op, args, mes, ano) ==
    [op |-> op, args |-> args, status |-> 303, body |-> redirect_url(mes, ano),
     log |-> ""]

\* logger.error(f"...: {e}"); raise HTTPException(status_code=500, detail=...)
Erro(op, args, detail, e) ==
    [op |-> op, args |-> args, status |-> 500, body |-> <<detail>>, log |-> e]

\* ------------------------------------------------------------- GET /

\* The month window (current_mes, current_ano) of a request.
janela(mes, ano, today) ==
    << IF Truthy(mes) THEN mes[1] ELSE today[2],
       IF Truthy(ano) THEN ano[1] ELSE today[1] >>

\* The template context of the dashboard, or the 500 page when the window is
\* no date or its previous or next month is out of the datetime range.
home_response(rows, rendas, mes, ano, today) ==
    LET current_mes == janela(mes, ano, today)[1]
        current_ano == janela(mes, ano, today)[2]
        key == target_month_str(current_ano, current_mes)
        cdb == categorias_db(rows, key)
        renda_mensal == sum_valor(rendas)
        total_geral == sum_data(cdb, DOMAIN cdb)
        current_date == <<current_ano, current_mes, 1>>
        prev_date == relativedelta_add(current_date, -1)
        next_date == relativedelta_add(current_date, 1)
    IN  IF \/ ~ValidDate(current_ano, current_mes, 1)
           \/ prev_date = <<>>
           \/ next_date = <<>>
        THEN [status |-> 500, body |-> <<"Erro interno">>,
              log |-> IF ~ValidDate(current_ano, current_mes, 1)
                      THEN "ValueError: datetime" ELSE "ValueError: relativedelta"]
        ELSE [status |-> 200, log |-> "",
              body |-> [
                default_date |->
                    IF current_mes = today[2] /\ current_ano = today[1]
                    THEN strftime(today)
                    ELSE strftime(<<current_ano, current_mes, 1>>),
                gastos |-> order_desc(select_gastos(rows, key)),
                rendas |-> rendas,
                labels |-> DOMAIN cdb,
                data |-> cdb,
                total_geral |-> total_geral,
                renda_mensal |-> renda_mensal,
                saldo_estimado |-> saldo_estimado(renda_mensal, total_geral),
                current_mes |-> current_mes,
                current_ano |-> current_ano,
                mes_nome |-> meses[current_mes],
                prev_mes |-> prev_date[2],
                prev_ano |-> prev_date[1],
                next_mes |-> next_date[2],
                next_ano |-> next_date[1] ]]

home(mes, ano, today) ==
    LET r == home_response(gastos, renda, mes, ano, today)
    IN  /\ last' = [op |-> "home", args |-> [mes |-> mes, ano |-> ano, today |-> today],
                    status |-> r.status, body |-> r.body, log |-> r.log]
        /\ UNCHANGED <<gastos, renda, seq_gastos, seq_renda, uuid_seq, tx>>

\* ------------------------------------------------------------- income

adicionar_renda(valor, descricao, current_mes, current_ano) ==
    /\ tx = Idle
    /\ seq_renda < MaxRendas
    /\ renda' = insert_renda(renda, seq_renda + 1, descricao, valor)
    /\ seq_renda' = seq_renda + 1
    /\ last' = Redirect("adicionar_renda",
                        [valor |-> valor, descricao |-> descricao],
                        current_mes, current_ano)
    /\ UNCHANGED <<gastos, seq_gastos, uuid_seq, tx>>

deletar_renda(id, current_mes, current_ano) ==
    /\ tx = Idle
    /\ renda' = delete_by_id(renda, id)
    /\ last' = Redirect("deletar_renda", [id |-> id], current_mes, current_ano)
    /\ UNCHANGED <<gastos, seq_gastos, seq_renda, uuid_seq, tx>>

\* ------------------------------------------------------------- expenses

\* POST /adicionar up to the opening of the connection: the date is parsed
\* (a ValueError ends the request with 500) and the group id generated.
adicionar_begin(descricao, valor, categoria, data, parcelas, current_mes, current_ano) ==
    LET form == [descricao |-> descricao, valor |-> valor, categoria |-> categoria,
                 data |-> data, parcelas |-> parcelas,
                 current_mes |-> current_mes, current_ano |-> current_ano]
    IN
    /\ tx = Idle
    /\ IF strptime(data) = <<>>
       THEN /\ last' = Erro("adicionar", form, "Erro ao adicionar despesa",
                             "ValueError: strptime")
            /\ UNCHANGED <<gastos, renda, seq_gastos, seq_renda, uuid_seq, tx>>
       ELSE /\ uuid_seq < MaxUuids
            /\ seq_gastos + (IF parcelas > 0 THEN parcelas ELSE 0) <= MaxRows
            /\ uuid_seq' = uuid_seq + 1
            /\ tx' = [state |-> "open", form |-> form,
                      start_date |-> strptime(data),
                      agrupamento_id |-> uuid_seq + 1,
                      i |-> 0, seq |-> seq_gastos, pending |-> {}]
            /\ last' = [op |-> "adicionar", args |-> form, status |-> 0, body |-> <<>>,
                        log |-> ""]
            /\ UNCHANGED <<gastos, renda, seq_gastos, seq_renda>>

\* One pass of `for i in range(parcelas)`: the date i months on and the
\* INSERT inside the open transaction; a date past MAXYEAR raises, which
\* rolls the transaction back and ends the request with 500.
adicionar_insert ==
    /\ tx.state = "open"
    /\ tx.i < tx.form.parcelas
    /\ LET future_date == relativedelta_add(tx.start_date, tx.i)
       IN  IF future_date = <<>>
           THEN /\ gastos' = rollback(gastos, tx.pending)
                /\ tx' = Idle
                /\ last' = Erro("adicionar", tx.form, "Erro ao adicionar despesa",
                                 "ValueError: relativedelta")
                /\ UNCHANGED <<renda, seq_gastos, seq_renda, uuid_seq>>
           ELSE /\ tx' = [tx EXCEPT
                            !.i = tx.i + 1,
                            !.seq = tx.seq + 1,
                            !.pending = tx.pending \cup
                                {insert_gasto(tx.seq + 1, tx.form, strftime(future_date),
                                              tx.i, tx.agrupamento_id)}]
                /\ last' = [op |-> "adicionar", args |-> tx.form, status |-> 0,
                            body |-> <<>>, log |-> ""]
                /\ UNCHANGED <<gastos, renda, seq_gastos, seq_renda, uuid_seq>>

\* The loop is over: `with conn:` commits and the handler redirects.
adicionar_commit ==
    /\ tx.state = "open"
    /\ tx.i >= tx.form.parcelas
    /\ gastos' = commit(gastos, tx.pending)
    /\ seq_gastos' = tx.seq
    /\ tx' = Idle
    /\ last' = Redirect("adicionar", tx.form, tx.form.current_mes, tx.form.current_ano)
    /\ UNCHANGED <<renda, seq_renda, uuid_seq>>

\* conn.execute or the commit raises sqlite3.Error: `with conn:` rolls back,
\* the handler answers 500.
adicionar_store_error ==
    /\ tx.state = "open"
    /\ gastos' = rollback(gastos, tx.pending)
    /\ tx' = Idle
    /\ last' = Erro("adicionar", tx.form, "Erro ao adicionar despesa", "sqlite3.Error")
    /\ UNCHANGED <<renda, seq_gastos, seq_renda, uuid_seq>>

deletar(id, current_mes, current_ano) ==
    /\ tx = Idle
    /\ gastos' = delete_by_id(gastos, id)
    /\ last' = Redirect("deletar", [id |-> id], current_mes, current_ano)
    /\ UNCHANGED <<renda, seq_gastos, seq_renda, uuid_seq, tx>>

deletar_serie(agrupamento_id, current_mes, current_ano) ==
    /\ tx = Idle
    /\ gastos' = delete_serie(gastos, agrupamento_id)
    /\ last' = Redirect("deletar_serie", [agrupamento_id |-> agrupamento_id],
                        current_mes, current_ano)
    /\ UNCHANGED <<renda, seq_gastos, seq_renda, uuid_seq, tx>>

\* ------------------------------------------------------------- system

Next ==
    \/ \E j \in Janelas, today \in Todays : home(j[1], j[2], today)
    \/ \E r \in Rendas, c \in Contextos : adicionar_renda(r.valor, r.descricao, c[1], c[2])
    \/ \E id \in 1 .. MaxRendas, c \in Contextos : deletar_renda(id, c[1], c[2])
    \/ \E d \in Despesas, p \in Parcelas, c \in Contextos :
          adicionar_begin(d.descricao, d.valor, d.categoria, d.data, p, c[1], c[2])
    \/ adicionar_insert
    \/ adicionar_commit
    \/ adicionar_store_error
    \/ \E id \in 1 .. MaxRows, c \in Contextos : deletar(id, c[1], c[2])
    \/ \E g \in 1 .. MaxUuids, c \in Contextos : deletar_serie(g, c[1], c[2])

Spec == Init /\ [][Next]_vars

\* GET / alone, over the wide range of windows.
HomeNext ==
    \E mes \in JanelaMeses, ano \in JanelaAnos, today \in Todays : home(mes, ano, today)

SpecHome == Init /\ [][HomeNext]_vars

\* ------------------------------------------------------------- properties

\* Calendar fields of a stored date string, and its month counted from year 0.
AnoDe(s) == s \div 10000
MesDe(s) == (s \div 100) % 100
DiaDe(s) == s % 100
MonthIndex(s) == AnoDe(s) * 12 + MesDe(s) - 1

RECURSIVE Soma(_)
Soma(rows) ==
    IF rows = {} THEN 0
    ELSE LET r == CHOOSE x \in rows : TRUE IN r.valor + Soma(rows \ {r})

RECURSIVE SomaTotais(_, _)
SomaTotais(f, cats) ==
    IF cats = {} THEN 0
    ELSE LET c == CHOOSE x \in cats : TRUE IN f[c] + SomaTotais(f, cats \ {c})

\* The non-null group identifiers of a set of rows, and the rows of one.
Grupos(rows) == {r.agrupamento_id : r \in rows} \ {NULL}
DoGrupo(rows, g) == {r \in rows : r.agrupamento_id = g}

\* The rows of a dashboard's window.
NaJanela(rows, mes, ano) == {r \in rows : AnoDe(r.data) = ano /\ MesDe(r.data) = mes}

Rendered == last.op = "home" /\ last.status = 200

\* C1: an accepted POST /adicionar with n >= 1 installments adds exactly n
\* rows and removes none; the n rows share one group identifier no earlier
\* row carries, carry the submitted description, category and undivided
\* amount, and the row of index i+1 (of n) is dated i calendar months after
\* the start date's month, on the start day clamped to that month's length.
C1_ExpandsToNRows ==
    [][ (tx.state = "open" /\ last'.op = "adicionar" /\ last'.status = 303
            /\ last'.args.parcelas >= 1)
        => LET f == last'.args
               n == f.parcelas
               st == strptime(f.data)
               novas == gastos' \ gastos
           IN  /\ st # <<>>
               /\ gastos \subseteq gastos'
               /\ Cardinality(novas) = n
               /\ \E g \in 1 .. uuid_seq :
                     /\ \A r \in novas : r.agrupamento_id = g
                     /\ \A r \in gastos : r.agrupamento_id # g
               /\ \A i \in 0 .. (n - 1) : \E r \in novas :
                     /\ r.parcela_atual = i + 1
                     /\ r.total_parcelas = n
                     /\ r.descricao = f.descricao
                     /\ r.valor = f.valor
                     /\ r.categoria = f.categoria
                     /\ MonthIndex(r.data) = st[1] * 12 + st[2] - 1 + i
                     /\ DiaDe(r.data) = Min(st[3], DaysInMonth(AnoDe(r.data), MesDe(r.data)))
      ]_vars

\* A two-installment submission starting on 31 January was accepted: its
\* second row is dated 28 February.
C1_Witness ==
    /\ last.op = "adicionar" /\ last.status = 303
    /\ last.args.parcelas = 2 /\ last.args.data = 20250131
    /\ \E r \in gastos : r.data = 20250228 /\ r.parcela_atual = 2 /\ r.valor = 1000

\* C2: POST /deletar_serie/{g} removes all and only the expense rows of
\* group g and no income row; POST /deletar/{id} removes at most the one
\* expense row with that id, no other expense row and no income row.
C2_DeleteFrame ==
    [][ /\ (last'.op = "deletar_serie"
              => /\ gastos' = {r \in gastos : r.agrupamento_id # last'.args.agrupamento_id}
                 /\ renda' = renda)
        /\ (last'.op = "deletar"
              => /\ gastos' \subseteq gastos
                 /\ \A r \in gastos \ gastos' : r.id = last'.args.id
                 /\ Cardinality(gastos \ gastos') <= 1
                 /\ renda' = renda)
      ]_vars

\* Group 1 was deleted as a series while a row of group 2 stays.
C2_Witness ==
    /\ last.op = "deletar_serie" /\ last.args.agrupamento_id = 1
    /\ DoGrupo(gastos, 1) = {}
    /\ DoGrupo(gastos, 2) # {}
    /\ seq_gastos = 2

\* C3 as stated: in every ledger state the rows of a group have the same
\* description, amount and category, installment indices forming 1..count
\* and dates in consecutive calendar months in index order.
C3_GroupIsFullSeries ==
    \A g \in Grupos(gastos) :
        LET rs == DoGrupo(gastos, g)
        IN  /\ \A r1, r2 \in rs :
                  /\ r1.descricao = r2.descricao
                  /\ r1.valor = r2.valor
                  /\ r1.categoria = r2.categoria
                  /\ r1.total_parcelas = r2.total_parcelas
                  /\ MonthIndex(r2.data) - MonthIndex(r1.data)
                        = r2.parcela_atual - r1.parcela_atual
            /\ \A r \in rs :
                  {x.parcela_atual : x \in rs} = 1 .. r.total_parcelas

\* C3 amended: in every ledger state the rows of a group have the same
\* description, amount, category and installment count; their installment
\* indices are distinct members of 1..count; and the dates of any two of
\* them lie as many calendar months apart as their indices.
C3_GroupIsPartOfSeries ==
    \A g \in Grupos(gastos) :
        LET rs == DoGrupo(gastos, g)
        IN  /\ \A r1, r2 \in rs :
                  /\ r1.descricao = r2.descricao
                  /\ r1.valor = r2.valor
                  /\ r1.categoria = r2.categoria
                  /\ r1.total_parcelas = r2.total_parcelas
                  /\ MonthIndex(r2.data) - MonthIndex(r1.data)
                        = r2.parcela_atual - r1.parcela_atual
                  /\ (r1.parcela_atual = r2.parcela_atual => r1 = r2)
            /\ \A r \in rs : r.parcela_atual \in 1 .. r.total_parcelas

\* A group of two installments of which only the second is left.
C3_Witness ==
    \E g \in Grupos(gastos) :
        /\ Cardinality(DoGrupo(gastos, g)) = 1
        /\ \A r \in DoGrupo(gastos, g) : r.parcela_atual = 2 /\ r.total_parcelas = 2

\* C4: while a POST /adicionar is inside its transaction the committed
\* ledger is the one from before the request and holds no row of the
\* submission; a request that fails (before, between or after the inserts)
\* leaves the ledger and its id sequence as they were, with none of its rows.
C4_AtomicInsert ==
    [][ /\ (tx'.state = "open"
              => /\ gastos' = gastos
                 /\ seq_gastos' = seq_gastos
                 /\ DoGrupo(gastos', tx'.agrupamento_id) = {})
        /\ (last'.op = "adicionar" /\ last'.status = 500
              => /\ gastos' = gastos
                 /\ seq_gastos' = seq_gastos
                 /\ tx' = Idle
                 /\ (tx.state = "open" => DoGrupo(gastos', tx.agrupamento_id) = {}))
      ]_vars

\* A two-installment submission dated December 9999 failed: its second date
\* is past MAXYEAR, after the first row was inserted.
C4_Witness ==
    /\ last.op = "adicionar" /\ last.status = 500
    /\ last.args.parcelas = 2 /\ last.args.data = 99991215
    /\ last.log = "ValueError: relativedelta"
    /\ tx = Idle

\* C5 as stated: a submission with an installment count below 1, a negative
\* amount or an unparseable start date is answered with an error, never
\* with the success redirect.
C5_InvalidInputRejected ==
    (/\ last.op = "adicionar"
     /\ last.status # 0
     /\ \/ last.args.parcelas < 1
        \/ last.args.valor < 0
        \/ strptime(last.args.data) = <<>>)
    => last.status = 500

\* C6 as stated: a GET / that supplies a month outside 1..12 fails.
C6_InvalidWindowRejected ==
    (/\ last.op = "home"
     /\ last.args.mes # None
     /\ last.args.mes[1] \notin 1 .. 12)
    => last.status = 500

\* C7: GET / renders exactly the windows (m, y) with m in 1..12 and y in
\* MINYEAR..MAXYEAR whose previous and next month exist, that is all but
\* (1, MINYEAR) and (12, MAXYEAR); the next window it computes is one month
\* later and the previous one month earlier, with year rollover, and the
\* previous window of the next window is (m, y).
C7_WindowNavigation ==
    last.op = "home" =>
        LET w == janela(last.args.mes, last.args.ano, last.args.today)
            m == w[1]
            y == w[2]
            b == last.body
        IN  /\ last.status = 200 <=>
                  /\ m \in 1 .. 12
                  /\ y \in MINYEAR .. MAXYEAR
                  /\ <<m, y>> \notin {<<1, MINYEAR>>, <<12, MAXYEAR>>}
            /\ last.status = 200 =>
                  /\ b.current_mes = m /\ b.current_ano = y
                  /\ <<b.next_mes, b.next_ano>> = (IF m = 12 THEN <<1, y + 1>> ELSE <<m + 1, y>>)
                  /\ <<b.prev_mes, b.prev_ano>> = (IF m = 1 THEN <<12, y - 1>> ELSE <<m - 1, y>>)
                  /\ relativedelta_add(<<b.next_ano, b.next_mes, 1>>, -1) = <<y, m, 1>>

\* December was rendered: its next window is January of the next year.
C7_Witness ==
    /\ Rendered
    /\ last.body.current_mes = 12
    /\ last.body.next_mes = 1
    /\ last.body.next_ano = last.body.current_ano + 1
    /\ last.body.prev_mes = 11

Sozinho(g) ==
    LET rs == DoGrupo(gastos, g)
    IN  /\ \A r \in rs : Cardinality(rs) = r.total_parcelas
        /\ \E r \in rs : r.parcela_atual = 1
        /\ \A r \in gastos : \A x \in rs : r.categoria = x.categoria => r \in rs

\* C9: with the n rows of a submission in the ledger and no other row of
\* its category c, each of the n windows from the start month on shows the
\* submitted amount as the total of c and every other window shows no total
\* for c; after POST /deletar_serie of the group no row of it is left, and
\* a dashboard shows no total for a category without a row in its window.
C9_GroupInWindows ==
    /\ Rendered =>
          LET b == last.body
              w == b.current_ano * 12 + b.current_mes - 1
          IN  /\ \A g \in Grupos(gastos) : Sozinho(g) =>
                    \A r \in DoGrupo(gastos, g) : r.parcela_atual = 1 =>
                        IF w \in MonthIndex(r.data) .. (MonthIndex(r.data) + r.total_parcelas - 1)
                        THEN r.categoria \in b.labels /\ b.data[r.categoria] = r.valor
                        ELSE r.categoria \notin b.labels
              /\ \A c \in b.labels :
                    \E r \in gastos : r.categoria = c /\ MonthIndex(r.data) = w
    /\ last.op = "deletar_serie" => DoGrupo(gastos, last.args.agrupamento_id) = {}

\* The window of the second installment of a lone group of two shows its amount.
C9_Witness ==
    /\ Rendered
    /\ \E g \in Grupos(gastos) :
          /\ Sozinho(g)
          /\ \E r \in DoGrupo(gastos, g) :
                /\ r.parcela_atual = 2 /\ r.total_parcelas = 2
                /\ MesDe(r.data) = last.body.current_mes
                /\ AnoDe(r.data) = last.body.current_ano
                /\ r.categoria \in last.body.labels
                /\ last.body.data[r.categoria] = r.valor

\* C10: a record present before and after a step has the same field values;
\* GET / changes no record, the income operations change no expense row and
\* the expense operations change no income row.
C10_NoMutation ==
    [][ /\ \A r \in gastos : \A x \in gastos' : r.id = x.id => r = x
        /\ \A r \in renda : \A x \in renda' : r.id = x.id => r = x
        /\ (last'.op = "home" => gastos' = gastos /\ renda' = renda)
        /\ (last'.op \in {"adicionar_renda", "deletar_renda"} => gastos' = gastos)
        /\ (last'.op \in {"adicionar", "deletar", "deletar_serie"} => renda' = renda)
      ]_vars

\* A row survives the deletion of another row while an income row exists.
C10_Witness ==
    /\ last.op = "deletar"
    /\ Cardinality(gastos) = 1
    /\ seq_gastos = 2
    /\ renda # {}

====
